---- MODULE Spec2Model ----
(***************************************************************************)
(* A model of the incremental dependency-graph engine of src/flow:         *)
(* AddedNode (internal_graph_node.py) and ProcessGraph (process_graph.py). *)
(* Values are small integers; a processor is SumInt-like (the sum of its   *)
(* inputs) or the Constant shim (returns its single literal input).        *)
(***************************************************************************)
EXTENDS Integers, Sequences, FiniteSets, TLC

(* ------------------------------ bounds -------------------------------- *)
NumNodes == 3
NumItems == 2
ValMod == 3
MaxOps == 3

Nodes == 1..NumNodes
Paths == 1..NumItems

(* --------------------------- program values --------------------------- *)
\* A timestamp / duration / path that is None.
NoTs == -1
NoPath == 0
\* A result that is None, and a JSON value that is not an int (e.g. [2]).
NoneVal == -2
BadVal == -1

IsInt(v) == v >= 0

VARIABLES
    node,           \* id -> AddedNode record
    dependencies,   \* ProcessGraph._dependencies
    autoSavePath,   \* ProcessGraph._auto_save_path
    disk,           \* path -> JSON document, or NoFile
    dryRun,         \* dry_run
    now,            \* the wall clock read by _refresh_result
    pc,             \* where the driver (process_batch / run_upto) stands
    batch,          \* the arguments of process_batch, and nodes_to_run
    nodeIdx,        \* node_index of process_batch (1-based)
    itemIdx,        \* item_index of process_batch (1-based)
    errIdx,         \* indices_with_errors
    stats,          \* batch_result
    raised,         \* the exception that left the driver, or "none"
    log,            \* the calls made so far: <<kind, node, item>>
    run,            \* the run_upto under way or last made, and the one before
    since,          \* what was done to the graph since that run_upto
    ops,            \* the number of calls made on the graph
    call            \* the last call of a function of the library, with its result

graphVars == <<node, dependencies, autoSavePath, disk, dryRun, now>>
batchVars == <<batch, nodeIdx, itemIdx, errIdx, stats>>
runVars == <<run, since, ops>>
vars == <<graphVars, batchVars, runVars, pc, raised, log, call>>

NoFile == [nofile |-> TRUE]

(* ------------------------------ helpers ------------------------------- *)
Min(S) == CHOOSE x \in S : \A y \in S : x <= y

RECURSIVE SortedSeq(_)
\* The iteration order of a Python set / dict of small ints: ascending.
SortedSeq(S) == IF S = {} THEN <<>> ELSE <<Min(S)>> \o SortedSeq(S \ {Min(S)})

(* ------------------------- graph_algorithms.py ------------------------ *)
\* _get_dependencies that looks at the start nodes' own inputs only.
GetDependenciesDirect(toCheck, deps, visited) ==
    toCheck \cup UNION {IF n \in DOMAIN deps THEN deps[n] ELSE {} : n \in toCheck}

RECURSIVE GetDependencies(_, _, _)
GetDependencies(toCheck, deps, visited) ==
    IF toCheck = {} THEN visited
    ELSE LET n == Min(toCheck)
             v == visited \cup {n}
             d == IF n \in DOMAIN deps THEN deps[n] ELSE {}
         IN GetDependencies((toCheck \ {n}) \cup (d \ v), deps, v)

RECURSIVE KahnLoop(_, _, _, _)
KahnLoop(queue, order, inDegree, sub) ==
    IF queue = <<>> THEN order
    ELSE LET n == Head(queue)
             neighbors == {m \in DOMAIN sub : n \in sub[m]}
             deg == [m \in DOMAIN inDegree |->
                        IF m \in neighbors THEN inDegree[m] - 1 ELSE inDegree[m]]
             ready == {m \in neighbors : deg[m] = 0}
         IN KahnLoop(Tail(queue) \o SortedSeq(ready), Append(order, n), deg, sub)

\* What stands for the ValueError of _topo_sort: no node has id 0.
CycleDetected == <<0>>

\* _topo_sort without the comparison of lengths: what the queue gave.
TopoSortUnchecked(sub) ==
    LET nodes == DOMAIN sub \cup UNION {sub[m] : m \in DOMAIN sub}
        s == [m \in nodes |-> IF m \in DOMAIN sub THEN sub[m] ELSE {}]
        inDegree == [m \in nodes |-> Cardinality(s[m])]
    IN KahnLoop(SortedSeq({m \in nodes : inDegree[m] = 0}), <<>>, inDegree, s)

\* _topo_sort: the order, or CycleDetected where the code raises ValueError.
TopoSort(sub) ==
    LET nodes == DOMAIN sub \cup UNION {sub[m] : m \in DOMAIN sub}
        s == [m \in nodes |-> IF m \in DOMAIN sub THEN sub[m] ELSE {}]
        inDegree == [m \in nodes |-> Cardinality(s[m])]
        order == KahnLoop(SortedSeq({m \in nodes : inDegree[m] = 0}), <<>>, inDegree, s)
    IN IF Len(order) # Cardinality(nodes) THEN CycleDetected ELSE order

RECURSIVE Reverse(_)
Reverse(seq) == IF seq = <<>> THEN <<>> ELSE Append(Reverse(Tail(seq)), Head(seq))

\* The sort with the edges read the wrong way round: dependents first.
TopoSortSubgraphDependentsFirst(startNodes, deps) ==
    LET subNodes == GetDependencies(startNodes, deps, {})
    IN Reverse(TopoSort([m \in subNodes |->
                    (IF m \in DOMAIN deps THEN deps[m] ELSE {}) \cap subNodes]))

TopoSortSubgraph(startNodes, deps) ==
    LET subNodes == GetDependencies(startNodes, deps, {})
    IN TopoSort([m \in subNodes |->
                    (IF m \in DOMAIN deps THEN deps[m] ELSE {}) \cap subNodes])

(* ------------------------ internal_graph_node.py ---------------------- *)
HasResult(rec) == rec.resultTs # NoTs

Reset(rec) == [rec EXCEPT !.result = NoneVal, !.resultTs = NoTs, !.time = NoTs]

\* release_resources that keeps the processor instance.
ReleaseNodeKept(rec) == Reset(rec)

ReleaseNode(rec) == Reset([rec EXCEPT !.lazy = FALSE])

ToPersist(rec) ==
    [name |-> rec.kind, output |-> rec.result, output_ts |-> rec.resultTs,
     time |-> rec.time, passive |-> rec.passive, overriden |-> rec.wasOverridden,
     version |-> rec.resultVersion]

FromPersist(rec, saved) ==
    [rec EXCEPT !.result = saved.output,
                !.resultVersion = saved.version,
                !.resultTs = saved.output_ts,
                !.time = saved.time,
                !.wasOverridden = IF saved.overriden THEN TRUE ELSE @]

\* _needs_update without the comparison with the inputs' timestamps.
NeedsUpdateNoUpstream(st, n) ==
    \/ st[n].passive
    \/ ~HasResult(st[n])
    \/ st[n].resultVersion # st[n].version
    \/ st[n].resultTs < st[n].invalidateBefore

\* _needs_update without the comparison of versions.
NeedsUpdateNoVersion(st, n) ==
    \/ st[n].passive
    \/ ~HasResult(st[n])
    \/ st[n].resultTs < st[n].invalidateBefore
    \/ \E m \in st[n].refs :
          /\ ~st[m].passive
          /\ st[m].resultTs # NoTs
          /\ st[m].resultTs > st[n].resultTs

\* _needs_update comparing with the timestamps of passive inputs too.
NeedsUpdateCountsPassive(st, n) ==
    \/ st[n].passive
    \/ ~HasResult(st[n])
    \/ st[n].resultVersion # st[n].version
    \/ st[n].resultTs < st[n].invalidateBefore
    \/ \E m \in st[n].refs :
          /\ st[m].resultTs # NoTs
          /\ st[m].resultTs > st[n].resultTs

\* _needs_update taking an input as newer when its timestamp is equal.
NeedsUpdateNotStrict(st, n) ==
    \/ st[n].passive
    \/ ~HasResult(st[n])
    \/ st[n].resultVersion # st[n].version
    \/ st[n].resultTs < st[n].invalidateBefore
    \/ \E m \in st[n].refs :
          /\ ~st[m].passive
          /\ st[m].resultTs # NoTs
          /\ st[m].resultTs >= st[n].resultTs

\* _needs_update.
NeedsUpdate(st, n) ==
    \/ st[n].passive
    \/ ~HasResult(st[n])
    \/ st[n].resultVersion # st[n].version
    \/ st[n].resultTs < st[n].invalidateBefore
    \/ \E m \in st[n].refs :
          /\ ~st[m].passive
          /\ st[m].resultTs # NoTs
          /\ st[m].resultTs > st[n].resultTs

\* manual_override_func of the tests: returns a fixed value.
OverrideVal == 2
OverrideFn(original) == OverrideVal

\* _overriden_result without the manual_override_func.
OverridenResultStored(st, m) == [st |-> st, err |-> "none", val |-> st[m].result]

RECURSIVE FillRefs(_, _), FilledInInputs(_, _), OverridenResult(_, _)

\* The loop of _filled_in_inputs over the inputs that are nodes.
\* acc = [st, err, sum, bad]: the node records (a read instantiates processors
\* and sets override flags), the error raised, the sum of the int values and
\* whether some value is not an int.
FillRefs(todo, acc) ==
    IF todo = <<>> \/ acc.err # "none" THEN acc
    ELSE LET m == Head(todo) IN
         IF ~HasResult(acc.st[m]) THEN [acc EXCEPT !.err = "UpstreamNotComputed"]
         ELSE LET o == OverridenResult(acc.st, m) IN
              FillRefs(Tail(todo),
                       [st |-> o.st, err |-> o.err,
                        sum |-> acc.sum + (IF IsInt(o.val) THEN o.val ELSE 0),
                        bad |-> acc.bad \/ ~IsInt(o.val)])

\* validate_args: the Constant shim checks the argument names only, the
\* default validator checks every value against the annotation (int).
ValidateArgs(kind, bad) == kind = "const" \/ ~bad

FilledInInputs(st, n) ==
    LET r == FillRefs(SortedSeq(st[n].refs),
                      [st |-> st, err |-> "none",
                       sum |-> IF IsInt(st[n].lit) THEN st[n].lit ELSE 0,
                       bad |-> ~IsInt(st[n].lit)])
    IN IF r.err # "none" THEN r
       ELSE LET st2 == [r.st EXCEPT ![n].lazy = TRUE]
            IN IF ValidateArgs(st[n].kind, r.bad) THEN [r EXCEPT !.st = st2]
               ELSE [r EXCEPT !.st = st2, !.err = "TypeMismatch"]

OverridenResult(st, m) ==
    IF ~st[m].override THEN [st |-> st, err |-> "none", val |-> st[m].result]
    ELSE LET f == FilledInInputs(st, m) IN
         IF f.err # "none" THEN [st |-> f.st, err |-> f.err, val |-> NoneVal]
         ELSE LET new == OverrideFn(st[m].result) IN
              [st |-> IF new # st[m].result
                      THEN [f.st EXCEPT ![m].wasOverridden = TRUE] ELSE f.st,
               err |-> "none", val |-> new]

\* process of the processors of the tests.
Process(rec, kwargs) == IF rec.kind = "const" THEN rec.lit ELSE kwargs.sum % ValMod

\* datetime.datetime.now().timestamp(), and a refresh that leaves it out.
TimestampUnset(clock) == NoTs
Timestamp(clock) == clock

\* _refresh_result stamping the node before process is called.
RefreshResultStampsFirst(st, n, clock, dry, procRaises) ==
    LET f == FilledInInputs(st, n) IN
    IF f.err # "none"
    THEN [st |-> f.st, err |-> f.err, invoked |-> FALSE, fired |-> FALSE]
    ELSE IF ~dry /\ procRaises
    THEN [st |-> [f.st EXCEPT ![n].resultTs = clock, ![n].resultVersion = st[n].version],
          err |-> "ProcessorFailure", invoked |-> TRUE, fired |-> FALSE]
    ELSE [st |-> [f.st EXCEPT ![n].result = IF dry THEN NoneVal ELSE Process(st[n], f),
                              ![n].time = 0,
                              ![n].resultTs = clock,
                              ![n].resultVersion = st[n].version],
          err |-> "none", invoked |-> ~dry, fired |-> TRUE]

\* _refresh_result. procRaises: whether the user's process raises this time.
\* Returns the node records, the error, whether process was invoked and
\* whether the result callback fired.
RefreshResult(st, n, clock, dry, procRaises) ==
    LET f == FilledInInputs(st, n) IN
    IF f.err # "none"
    THEN [st |-> f.st, err |-> f.err, invoked |-> FALSE, fired |-> FALSE]
    ELSE IF ~dry /\ procRaises
    THEN [st |-> f.st, err |-> "ProcessorFailure", invoked |-> TRUE, fired |-> FALSE]
    ELSE [st |-> [f.st EXCEPT ![n].result = IF dry THEN NoneVal ELSE Process(st[n], f),
                              ![n].time = 0,
                              ![n].resultTs = Timestamp(clock),
                              ![n].resultVersion = st[n].version],
          err |-> "none", invoked |-> ~dry, fired |-> TRUE]

InternalRun(st, n, clock, dry, procRaises) ==
    IF NeedsUpdate(st, n) THEN RefreshResult(st, n, clock, dry, procRaises)
    ELSE [st |-> st, err |-> "none", invoked |-> FALSE, fired |-> FALSE]

(* --------------------------- process_graph.py ------------------------- *)
\* str(id) of json.dump and int(key) of _load_results_dict.
Digits == <<"0", "1", "2", "3", "4", "5", "6", "7", "8", "9">>
IntToStr(i) == Digits[i + 1]
StrToInt(s) == CHOOSE i \in 0..9 : Digits[i + 1] = s

\* results_dict with an entry for every node, computed or not.
ResultsDictEveryNode(st) == [i \in DOMAIN st |-> ToPersist(st[i])]

ResultsDict(st) == [i \in {n \in DOMAIN st : HasResult(st[n])} |-> ToPersist(st[i])]

JsonDump(d) == [k \in {IntToStr(i) : i \in DOMAIN d} |-> d[StrToInt(k)]]

\* _load_results_dict looking up the keys of the document as they are:
\* strings, which are no ids of the graph.
LoadResultsDictStringKeys(st, doc) == st

LoadResultsDict(st, doc) ==
    [n \in DOMAIN st |->
        IF \E k \in DOMAIN doc : StrToInt(k) = n
        THEN FromPersist(st[n], doc[CHOOSE k \in DOMAIN doc : StrToInt(k) = n])
        ELSE st[n]]

\* reset(), and a persist that leaves it out.
ResetAllForgotten(st) == st
ResetAll(st) == [n \in DOMAIN st |-> Reset(st[n])]

\* graph.release_resources() that releases nothing.
ReleaseResourcesSkipped(st) == st

ReleaseResources(st) == [n \in DOMAIN st |-> ReleaseNode(st[n])]

\* persist(path) without the reset() it begins with.
PersistKeepsMemory(st, dsk, path) ==
    IF dsk[path] = NoFile THEN st ELSE LoadResultsDict(st, dsk[path])

\* persist(path): the node records afterwards.
Persist(st, dsk, path) ==
    IF dsk[path] = NoFile THEN ResetAll(st) ELSE LoadResultsDict(ResetAll(st), dsk[path])

\* _on_node_result writing nothing.
SaveToSkipped(dsk, path, st, dry) == dsk

\* _on_node_result -> _save_to: the disk afterwards.
SaveTo(dsk, path, st, dry) ==
    IF path = NoPath \/ dry THEN dsk ELSE [dsk EXCEPT ![path] = JsonDump(ResultsDict(st))]

(* ------------------------- states of the program ---------------------- *)
\* A node as add_node leaves it: no result, no processor instance.
NewNode(kind, refs, lit, passive, version, invalidateBefore, override) ==
    [kind |-> kind, refs |-> refs, lit |-> lit, passive |-> passive,
     version |-> version, invalidateBefore |-> invalidateBefore,
     override |-> override, wasOverridden |-> FALSE,
     result |-> NoneVal, resultVersion |-> 0, resultTs |-> NoTs, time |-> NoTs,
     lazy |-> FALSE]

\* add_node records the inputs that are nodes.
DependenciesOf(st) == [n \in DOMAIN st |-> st[n].refs]

\* The graphs of the tests: node 1 is a constant, every later node a SumInt
\* over a literal and nodes added before it: the one before it (the chain
\* of _decrement_graph), node 1, all of them (test_graph_structure) or none.
Shapes == {"chain", "fan", "full", "none"}

ShapeRefs(shape, n) ==
    IF n = 1 \/ shape = "none" THEN {}
    ELSE IF shape = "chain" THEN {n - 1}
    ELSE IF shape = "fan" THEN {1}
    ELSE 1..(n - 1)

BatchGraphs ==
    {[n \in Nodes |-> [kind |-> IF n = 1 THEN "const" ELSE "sum",
                       refs |-> ShapeRefs(shape, n)]] : shape \in Shapes}

\* No run_upto made yet, and nothing done since.
EmptyRun ==
    [target |-> 0, list |-> <<>>, status |-> "none", calls |-> [n \in Nodes |-> 0],
     pre |-> <<>>, preNow |-> 0, ret |-> NoneVal, since |-> [kind |-> "nothing"],
     repeat |-> FALSE, prevCalls |-> <<>>, prevRet |-> NoneVal, prevPre |-> <<>>,
     prevNow |-> 0]

Nothing == [kind |-> "nothing"]

\* No function of the library called yet.
NoCall == [fn |-> "none"]

EmptyBatch ==
    [items |-> <<>>, nodesToRun |-> <<>>, faultTolerant |-> TRUE,
     postFn |-> FALSE, releaseAfter |-> {}]

InitBatch ==
    /\ \E g \in BatchGraphs, p \in BOOLEAN :
          node = [n \in Nodes |->
                    NewNode(g[n].kind, g[n].refs, IF n = 1 THEN 0 ELSE 1,
                            n = 1 /\ p, 0, 0, FALSE)]
    /\ dependencies = DependenciesOf(node)
    /\ autoSavePath \in {NoPath, 1}
    /\ disk = [p \in Paths |-> NoFile]
    /\ dryRun \in BOOLEAN
    /\ now = 1
    /\ pc = "idle"
    /\ batch = EmptyBatch
    /\ nodeIdx = 0
    /\ itemIdx = 0
    /\ errIdx = {}
    /\ stats = [completed |-> 0, failures |-> <<>>]
    /\ raised = "none"
    /\ log = <<>>
    /\ run = EmptyRun
    /\ since = Nothing
    /\ ops = 0
    /\ call = NoCall

(* ------------------------------ process_batch ------------------------- *)
\* The items of a batch: ints, and one that is not an int.
ItemVals == {1, BadVal}

\* The node prep_fn of the tests writes the item to.
PrepNode == 1

\* process_batch up to its loops.
BatchStart ==
    /\ pc = "idle"
    /\ \E targets \in {{n} : n \in Nodes} \cup {{}, Nodes},
          items \in [1..NumItems -> ItemVals],
          ft \in BOOLEAN, post \in BOOLEAN, rel \in {{}, Nodes} :
          batch' = [items |-> items,
                    nodesToRun |-> TopoSortSubgraph(targets, dependencies),
                    faultTolerant |-> ft, postFn |-> post, releaseAfter |-> rel]
    /\ stats' = [completed |-> 0, failures |-> <<>>]
    /\ errIdx' = {}
    /\ nodeIdx' = 1
    /\ itemIdx' = 1
    /\ pc' = "batch"
    /\ UNCHANGED <<call, graphVars, raised, log, runVars>>

InLoop ==
    /\ pc = "batch"
    /\ nodeIdx <= Len(batch.nodesToRun)
    /\ itemIdx <= Len(batch.items)

\* An item that failed at an earlier node is skipped.
BatchSkip ==
    /\ InLoop
    /\ itemIdx \in errIdx
    /\ itemIdx' = itemIdx + 1
    /\ UNCHANGED <<call, graphVars, batch, nodeIdx, errIdx, stats, pc, raised, log, runVars>>

\* prep_fn of the tests: nodes[0].set("value", item) ...
PrepSet(st, item) == [st EXCEPT ![PrepNode].lit = item]

\* ... and graph.persist(path of the item): "persist" + str(index).
PrepPath(i) == i

\* self._auto_save_path = None before prep_fn is called.
PathBeforePrepKept(cur) == cur
PathBeforePrep(cur) == NoPath

\* The graph after prep_fn, which calls persist() or does not.
AfterPrep(persists, i) ==
    LET st == PrepSet(node, batch.items[i]) IN
    IF persists
    THEN [st |-> Persist(st, disk, PrepPath(i)), path |-> PrepPath(i)]
    ELSE [st |-> st, path |-> PathBeforePrep(autoSavePath)]

PrepLog(n, i, persists) ==
    <<<<"prep", n, i>>>> \o (IF persists THEN <<<<"persist", n, i>>>> ELSE <<>>)

\* prep_fn returned and no path is bound: process_batch raises.
BatchPrepMissing ==
    /\ InLoop
    /\ itemIdx \notin errIdx
    /\ \E persists \in BOOLEAN :
          LET a == AfterPrep(persists, itemIdx) IN
          /\ a.path = NoPath
          /\ node' = a.st
          /\ autoSavePath' = a.path
          /\ log' = log \o PrepLog(batch.nodesToRun[nodeIdx], itemIdx, persists)
    /\ pc' = "raised"
    /\ raised' = "PrepMissingPersist"
    /\ UNCHANGED <<call, dependencies, disk, dryRun, now, batchVars, runVars>>

\* except Exception: the exception is swallowed iff fault_tolerant.
CaughtAlways(err, faultTolerant) == TRUE
CaughtProcessorOnly(err, faultTolerant) == faultTolerant /\ err = "ProcessorFailure"
Caught(err, faultTolerant) == faultTolerant

\* indices_with_errors.add(item_index)
AddErrorForgotten(errs, i) == errs
AddError(errs, i) == errs \cup {i}

\* batch_result.failures.append(_BatchFailure(...))
AppendFailure(st, i, item, n, err) ==
    [st EXCEPT !.failures = Append(@, [item_index |-> i, item |-> item,
                                       failed_node |-> n, exception |-> err])]

\* if is_last_node: batch_result.completed += 1
CountCompletedEveryNode(st, isLast) == [st EXCEPT !.completed = @ + 1]
CountCompleted(st, isLast) == IF isLast THEN [st EXCEPT !.completed = @ + 1] ELSE st

RunLog(n, i, r, post) ==
    <<<<"run", n, i>>>>
    \o (IF r.invoked THEN <<<<"process", n, i>>>> ELSE <<>>)
    \o (IF r.err # "none" THEN <<<<r.err, n, i>>>> ELSE <<>>)
    \o (IF r.err = "none" /\ post THEN <<<<"post", n, i>>>> ELSE <<>>)

\* One pass of the inner loop: prep_fn, _run_only, the except clause, post_fn.
BatchItem ==
    /\ InLoop
    /\ itemIdx \notin errIdx
    /\ \E persists \in BOOLEAN, procRaises \in BOOLEAN :
          LET n == batch.nodesToRun[nodeIdx]
              a == AfterPrep(persists, itemIdx)
              r == InternalRun(a.st, n, now, dryRun, procRaises)
              isLast == nodeIdx = Len(batch.nodesToRun)
          IN /\ a.path # NoPath
             /\ procRaises => r.invoked
             /\ autoSavePath' = a.path
             /\ node' = r.st
             /\ now' = IF r.fired THEN now + 1 ELSE now
             /\ disk' = IF r.fired THEN SaveTo(disk, a.path, r.st, dryRun) ELSE disk
             /\ log' = log \o PrepLog(n, itemIdx, persists)
                           \o RunLog(n, itemIdx, r, batch.postFn)
             /\ IF r.err = "none"
                THEN /\ stats' = CountCompleted(stats, isLast)
                     /\ itemIdx' = itemIdx + 1
                     /\ UNCHANGED <<errIdx, pc, raised>>
                ELSE IF ~Caught(r.err, batch.faultTolerant)
                THEN /\ pc' = "raised"
                     /\ raised' = r.err
                     /\ UNCHANGED <<errIdx, stats, itemIdx>>
                ELSE /\ errIdx' = AddError(errIdx, itemIdx)
                     /\ stats' = AppendFailure(stats, itemIdx, batch.items[itemIdx],
                                               n, r.err)
                     /\ itemIdx' = itemIdx + 1
                     /\ UNCHANGED <<pc, raised>>
    /\ UNCHANGED <<call, dependencies, dryRun, batch, nodeIdx, runVars>>

\* The end of the inner loop: release_resources after a listed node.
BatchNodeEnd ==
    /\ pc = "batch"
    /\ nodeIdx <= Len(batch.nodesToRun)
    /\ itemIdx > Len(batch.items)
    /\ node' = IF batch.nodesToRun[nodeIdx] \in batch.releaseAfter
               THEN ReleaseResources(node) ELSE node
    /\ nodeIdx' = nodeIdx + 1
    /\ itemIdx' = 1
    /\ UNCHANGED <<call, dependencies, autoSavePath, disk, dryRun, now, batch, errIdx,
                   stats, pc, raised, log, runVars>>

\* After the loops: release_resources, return batch_result.
BatchFinish ==
    /\ pc = "batch"
    /\ nodeIdx > Len(batch.nodesToRun)
    /\ node' = ReleaseResources(node)
    /\ pc' = "done"
    /\ UNCHANGED <<call, dependencies, autoSavePath, disk, dryRun, now, batchVars,
                   raised, log, runVars>>

NextBatch ==
    \/ BatchStart
    \/ BatchSkip
    \/ BatchPrepMissing
    \/ BatchItem
    \/ BatchNodeEnd
    \/ BatchFinish

SpecBatch == InitBatch /\ [][NextBatch]_vars

(* -------------------------------- run_upto ---------------------------- *)
\* force=True: invalidate_before lies 100 years ahead.
FarFuture == 100

\* One second of the wall clock, in refreshes: more than a run makes.
OneSecond == 10
MaxVersion == 1

\* Graphs as above; node 1 or node 2 may be passive and the last node may be
\* added with force=True.
InitRun ==
    /\ \E g \in BatchGraphs, p \in 0..2, f \in {0, NumNodes} :
          node = [n \in Nodes |->
                    NewNode(g[n].kind, g[n].refs, 1, n = p, 0,
                            IF n = f THEN FarFuture ELSE 0, FALSE)]
    /\ dependencies = DependenciesOf(node)
    /\ autoSavePath = NoPath
    /\ disk = [p \in Paths |-> NoFile]
    /\ dryRun = FALSE
    /\ now = 1
    /\ pc = "idle"
    /\ batch = EmptyBatch
    /\ nodeIdx = 0
    /\ itemIdx = 0
    /\ errIdx = {}
    /\ stats = [completed |-> 0, failures |-> <<>>]
    /\ raised = "none"
    /\ log = <<>>
    /\ run = EmptyRun
    /\ since = Nothing
    /\ ops = 0
    /\ call = NoCall

CanCall == pc = "idle" /\ ops < MaxOps

\* The tests change a node only after a first run_upto.
CanEdit == CanCall /\ run.status # "none"

\* run_upto([N]) up to its loop.
RunStart ==
    /\ CanCall
    /\ \E N \in Nodes :
          LET list == TopoSortSubgraph({N}, dependencies) IN
          /\ run' = [target |-> N, list |-> IF list = CycleDetected THEN <<>> ELSE list,
                     status |-> IF list = CycleDetected THEN "raised" ELSE "running",
                     calls |-> [n \in Nodes |-> 0],
                     pre |-> node, preNow |-> now, ret |-> NoneVal, since |-> since,
                     repeat |-> run.status = "ok" /\ run.target = N,
                     prevCalls |-> run.calls, prevRet |-> run.ret,
                     prevPre |-> run.pre, prevNow |-> run.preNow]
          /\ pc' = IF list = CycleDetected THEN "idle" ELSE "running"
          /\ raised' = IF list = CycleDetected THEN "CycleDetected" ELSE "none"
    /\ since' = Nothing
    /\ ops' = ops + 1
    /\ UNCHANGED <<call, graphVars, batchVars, log>>

\* One pass of the loop of run_upto: node.internal_run().
RunStep ==
    /\ pc = "running"
    /\ \E procRaises \in BOOLEAN :
          LET n == Head(run.list)
              r == InternalRun(node, n, now, dryRun, procRaises)
              calls == [run.calls EXCEPT ![n] = IF r.invoked THEN @ + 1 ELSE @]
              rest == Tail(run.list)
          IN /\ procRaises => r.invoked
             /\ node' = r.st
             /\ now' = IF r.fired THEN now + 1 ELSE now
             /\ disk' = IF r.fired THEN SaveTo(disk, autoSavePath, r.st, dryRun) ELSE disk
             /\ IF r.err # "none"
                THEN /\ run' = [run EXCEPT !.calls = calls, !.list = <<>>,
                                           !.status = "raised"]
                     /\ pc' = "idle"
                     /\ raised' = r.err
                ELSE /\ run' = [run EXCEPT !.calls = calls, !.list = rest,
                                           !.ret = r.st[n].result,
                                           !.status = IF rest = <<>> THEN "ok"
                                                      ELSE "running"]
                     /\ pc' = IF rest = <<>> THEN "idle" ELSE "running"
                     /\ UNCHANGED raised
    /\ UNCHANGED <<call, dependencies, autoSavePath, dryRun, batchVars, log, since, ops>>

\* node1.result_timestamp = node2.result_timestamp + 1, as the tests do. The
\* second added there is behind the clock of a later refresh or ahead of it.
SetTimestamp ==
    /\ CanEdit
    /\ \E n \in Nodes, m \in Nodes, d \in {1, OneSecond} :
          /\ m \in node[n].refs
          /\ HasResult(node[n]) /\ HasResult(node[m])
          /\ node' = [node EXCEPT ![m].resultTs = node[n].resultTs + d]
    /\ since' = [kind |-> "change"]
    /\ ops' = ops + 1
    /\ UNCHANGED <<call, dependencies, autoSavePath, disk, dryRun, now, batchVars, pc,
                   raised, log, run>>

\* node.version = 1: the next version.
SetVersion ==
    /\ CanEdit
    /\ \E n \in Nodes :
          /\ node[n].version < MaxVersion
          /\ node' = [node EXCEPT ![n].version = @ + 1]
    /\ since' = [kind |-> "change"]
    /\ ops' = ops + 1
    /\ UNCHANGED <<call, dependencies, autoSavePath, disk, dryRun, now, batchVars, pc,
                   raised, log, run>>

\* set_value(value) on a constant node.
SetValue ==
    /\ CanEdit
    /\ \E n \in Nodes, v \in 0..(ValMod - 1) :
          /\ node[n].kind = "const"
          /\ v # node[n].lit
          /\ node' = [node EXCEPT ![n].lit = v]
    /\ since' = [kind |-> "change"]
    /\ ops' = ops + 1
    /\ UNCHANGED <<call, dependencies, autoSavePath, disk, dryRun, now, batchVars, pc,
                   raised, log, run>>

\* json.loads(json.dumps(...)) of one node's document: what it is made of
\* (numbers, booleans, strings, null) survives unchanged.
JsonRoundTrip(doc) == doc

\* node.from_persist(node.to_persist()): "simulate save and reload".
Reload ==
    /\ CanEdit
    /\ since.kind = "nothing"
    /\ \E n \in Nodes :
          /\ HasResult(node[n])
          /\ node' = [node EXCEPT ![n] = FromPersist(@, JsonRoundTrip(ToPersist(@)))]
          /\ since' = [kind |-> "reload", n |-> n,
                       stale |-> [k \in Nodes |-> NeedsUpdate(node, k)]]
    /\ ops' = ops + 1
    /\ UNCHANGED <<call, dependencies, autoSavePath, disk, dryRun, now, batchVars, pc,
                   raised, log, run>>

NextRun ==
    \/ RunStart
    \/ RunStep
    \/ SetTimestamp
    \/ SetVersion
    \/ SetValue
    \/ Reload

SpecRun == InitRun /\ [][NextRun]_vars

(* ----------------------- properties of process_batch ------------------ *)
LogIdx == 1..Len(log)
Range(seq) == {seq[k] : k \in 1..Len(seq)}
NodePos(n) == CHOOSE k \in 1..Len(batch.nodesToRun) : batch.nodesToRun[k] = n
ItemIdxs == 1..Len(batch.items)
EngineErrors == {"UpstreamNotComputed", "TypeMismatch"}
ErrorKinds == EngineErrors \cup {"ProcessorFailure"}
FailuresOf(i) == {k \in 1..Len(stats.failures) : stats.failures[k].item_index = i}
FailedIdxs == {stats.failures[k].item_index : k \in 1..Len(stats.failures)}

\* C1: process_batch is node-major, item-minor: of two process invocations the
\* earlier one is of a node earlier in the run order, or of the same node and
\* an earlier item; and the run order puts every dependency before its
\* dependents.
C1_NodeMajorItemMinor ==
    /\ \A p, q \in LogIdx :
          (p < q /\ log[p][1] = "process" /\ log[q][1] = "process") =>
             \/ NodePos(log[p][2]) < NodePos(log[q][2])
             \/ log[p][2] = log[q][2] /\ log[p][3] < log[q][3]
    /\ \A a, b \in Range(batch.nodesToRun) :
          a \in dependencies[b] => NodePos(a) < NodePos(b)

C1_Witness ==
    /\ pc = "done"
    /\ \E p, q \in LogIdx :
          /\ log[p][1] = "process" /\ log[q][1] = "process"
          /\ log[p][2] \in dependencies[log[q][2]]
          /\ log[p][3] # log[q][3]

\* C2: with fault_tolerant, a process that raises for an item leaves exactly one
\* failure record (index, item, node, exception) for the item, nothing more is
\* called for that item, and at the end every item was run by every node up to
\* the node it failed at (by all nodes if it did not fail).
C2_FailureIsolated ==
    batch.faultTolerant =>
       /\ \A p \in LogIdx :
             log[p][1] = "ProcessorFailure" =>
                /\ Cardinality(FailuresOf(log[p][3])) = 1
                /\ [item_index |-> log[p][3], item |-> batch.items[log[p][3]],
                    failed_node |-> log[p][2], exception |-> "ProcessorFailure"]
                      \in Range(stats.failures)
                /\ \A q \in LogIdx : q > p => log[q][3] # log[p][3]
       /\ pc = "done" =>
             \A i \in ItemIdxs, k \in 1..Len(batch.nodesToRun) :
                (\A f \in FailuresOf(i) : k <= NodePos(stats.failures[f].failed_node))
                   => <<"run", batch.nodesToRun[k], i>> \in Range(log)

C2_Witness ==
    /\ pc = "done"
    /\ batch.faultTolerant
    /\ stats.completed >= 1
    /\ \E k \in 1..Len(stats.failures) :
          /\ stats.failures[k].exception = "ProcessorFailure"
          /\ NodePos(stats.failures[k].failed_node) < Len(batch.nodesToRun)

C4_PrepMustPersist ==
    /\ \A p \in LogIdx :
          log[p][1] = "prep" =>
             \/ p < Len(log) /\ log[p + 1] = <<"persist", log[p][2], log[p][3]>>
             \/ p = Len(log) /\ pc = "raised" /\ raised = "PrepMissingPersist"
    /\ \A p \in LogIdx :
          log[p][1] = "run" =>
             /\ p >= 3
             /\ log[p - 1] = <<"persist", log[p][2], log[p][3]>>
             /\ log[p - 2] = <<"prep", log[p][2], log[p][3]>>
    /\ \A p \in LogIdx :
          log[p][1] = "process" => log[p - 1] = <<"run", log[p][2], log[p][3]>>

C4_Witness ==
    /\ raised = "PrepMissingPersist"
    /\ batch.faultTolerant
    /\ \E p \in LogIdx : log[p][1] = "persist"

\* C5: on return with fault_tolerant and a non-empty run, completed is the number
\* of items the last node ran without error, which is the number of items
\* without a failure record; no item has two records; completed + failures
\* = items.
C5_CompletedCount ==
    (pc = "done" /\ batch.faultTolerant /\ Len(batch.nodesToRun) > 0) =>
       LET last == batch.nodesToRun[Len(batch.nodesToRun)]
           ok == {i \in ItemIdxs :
                     /\ <<"run", last, i>> \in Range(log)
                     /\ \A e \in ErrorKinds : <<e, last, i>> \notin Range(log)}
       IN /\ stats.completed = Cardinality(ok)
          /\ stats.completed = Cardinality(ItemIdxs \ FailedIdxs)
          /\ Cardinality(FailedIdxs) = Len(stats.failures)
          /\ stats.completed + Len(stats.failures) = Len(batch.items)

C5_Witness ==
    /\ pc = "done"
    /\ batch.faultTolerant
    /\ Len(batch.nodesToRun) > 1
    /\ stats.completed >= 1
    /\ Len(stats.failures) >= 1

\* C6: without fault_tolerant, the first exception of a run is the last thing
\* that happens: it leaves process_batch and no record is kept; and a batch in
\* which nothing raises, fault_tolerant or not, runs every node for every item
\* and counts every item completed.
C6_FailFast ==
    /\ ~batch.faultTolerant =>
          /\ \A p \in LogIdx :
                log[p][1] \in ErrorKinds =>
                   p = Len(log) /\ pc = "raised" /\ raised = log[p][1]
          /\ stats.failures = <<>>
    /\ (pc = "done" /\ stats.failures = <<>>) =>
          /\ \A i \in ItemIdxs, n \in Range(batch.nodesToRun) :
                <<"run", n, i>> \in Range(log)
          /\ Len(batch.nodesToRun) > 0 => stats.completed = Len(batch.items)

C6_Witness ==
    /\ ~batch.faultTolerant
    /\ pc = "raised"
    /\ raised = "ProcessorFailure"
    /\ \E p \in LogIdx : log[p][1] = "post"

(* ------------------------ Properties of run_upto ---------------------- *)
\* The nodes the last run_upto traverses.
Traversed == Range(TopoSortSubgraph({run.target}, dependencies))

\* The last run_upto has returned.
Returned == pc = "idle" /\ run.status = "ok"

\* The last run_upto has ended, and it repeats the run_upto before it: same
\* target, that one returned, and nothing was changed in between.
Repeated ==
    /\ pc = "idle" /\ run.status \in {"ok", "raised"}
    /\ run.repeat /\ run.since.kind = "nothing"

\* Staleness as the specification words it, for a node and what it is
\* computed from: a result, of the declared version, not before the cutoff,
\* and no older than any non-passive input.
RECURSIVE Fresh(_, _)
Fresh(st, n) ==
    /\ st[n].resultTs # NoTs
    /\ st[n].resultVersion = st[n].version
    /\ st[n].resultTs >= st[n].invalidateBefore
    /\ \A m \in st[n].refs :
          st[m].passive \/ (st[m].resultTs <= st[n].resultTs /\ Fresh(st, m))

\* The value process returns for node n from the results now stored.
Recomputed(st, n) == Process(st[n], FilledInInputs(st, n))

\* No traversed node is passive, none has a cutoff ahead of the clock, and no
\* result is stamped ahead of the clock, when the first of the two runs starts.
NothingAhead ==
    \A n \in Traversed :
        /\ ~run.prevPre[n].passive
        /\ run.prevPre[n].invalidateBefore <= run.prevNow
        /\ run.prevPre[n].resultTs < run.prevNow

\* C7 (as claimed): for every graph and node N, run_upto([N]) twice in a row
\* with no change in between invokes process once in total for each traversed
\* node: the second run invokes process for none and returns the same value.
C7_Idempotent ==
    Repeated =>
        /\ run.status = "ok"
        /\ run.ret = run.prevRet
        /\ \A n \in Traversed :
              /\ run.calls[n] = 0
              /\ run.prevCalls[n] <= 1
              /\ run.prevPre[n].resultTs = NoTs => run.prevCalls[n] = 1

\* C7 (amended): the same, for traversals with no passive node, no node whose
\* invalidate_before is ahead of the clock (force=True) and no result stamped
\* ahead of the clock.
C7_IdempotentNothingAhead ==
    (Repeated /\ NothingAhead) =>
        /\ run.status = "ok"
        /\ run.ret = run.prevRet
        /\ \A n \in Traversed :
              /\ run.calls[n] = 0
              /\ run.prevCalls[n] <= 1
              /\ run.prevPre[n].resultTs = NoTs => run.prevCalls[n] = 1

\* A repeated run over more than one node, each computed by the first run.
C7_Witness ==
    /\ Repeated /\ NothingAhead
    /\ Cardinality(Traversed) > 1
    /\ \A n \in Traversed : run.prevCalls[n] = 1 /\ run.calls[n] = 0

\* C8: if M is an input of N, M is not passive, both have current results
\* and M's result_timestamp is greater than N's, then run_upto([N]) invokes
\* N.process exactly once and does not invoke M.process.
C8_NewerUpstream ==
    Returned =>
        \A M \in run.pre[run.target].refs :
            (/\ ~run.pre[M].passive
             /\ Fresh(run.pre, M)
             /\ run.pre[run.target].resultTs # NoTs
             /\ run.pre[M].resultTs > run.pre[run.target].resultTs)
            => run.calls[run.target] = 1 /\ run.calls[M] = 0

\* The run after M's timestamp was set ahead of N's, N otherwise current.
C8_Witness ==
    /\ Returned
    /\ \E M \in run.pre[run.target].refs :
          /\ ~run.pre[M].passive
          /\ Fresh(run.pre, M)
          /\ run.pre[run.target].resultTs # NoTs
          /\ run.pre[run.target].resultVersion = run.pre[run.target].version
          /\ run.pre[run.target].resultTs >= run.pre[run.target].invalidateBefore
          /\ run.pre[M].resultTs > run.pre[run.target].resultTs
          /\ run.calls[run.target] = 1 /\ run.calls[M] = 0

\* C9: when N has a result of another version than N.version (the version
\* was changed after a run, a reload in between or not), run_upto([N])
\* invokes N.process exactly once and leaves result_version = version; and
\* a to_persist/from_persist reload makes no node stale: a node that was
\* current before its reload, over current inputs, is not invoked by the
\* next run_upto.
C9_VersionBump ==
    /\ (Returned /\ since.kind = "nothing") =>
          LET N == run.target IN
          (run.pre[N].resultTs # NoTs /\ run.pre[N].resultVersion # run.pre[N].version)
          => /\ run.calls[N] = 1
             /\ node[N].resultVersion = node[N].version
    /\ since.kind = "reload" =>
          \A k \in Nodes : NeedsUpdate(node, k) = since.stale[k]
    /\ (Returned /\ run.since.kind = "reload") =>
          LET n == run.since.n IN
          (/\ n \in Traversed
           /\ ~run.since.stale[n]
           /\ \A k \in run.pre[n].refs : run.pre[k].passive \/ Fresh(run.pre, k))
          => run.calls[n] = 0

\* The target was computed, its version changed, and it was run again.
C9_Witness ==
    /\ Returned /\ since.kind = "nothing"
    /\ run.pre[run.target].resultTs # NoTs
    /\ run.pre[run.target].resultVersion # run.pre[run.target].version
    /\ run.pre[run.target].resultTs >= run.pre[run.target].invalidateBefore
    /\ \A m \in run.pre[run.target].refs : Fresh(run.pre, m)
    /\ run.calls[run.target] = 1
    /\ node[run.target].resultVersion = node[run.target].version

\* C10: a traversed passive node is invoked on every run_upto and its stored
\* result is the value of its process now; a node that is not passive and is
\* current but for its passive inputs is not invoked; and a node that is
\* invoked stores the value of its process over the latest results of its
\* inputs, the passive ones included.
C10_Passive ==
    (Returned /\ since.kind = "nothing") =>
        \A n \in Traversed :
            /\ run.pre[n].passive => run.calls[n] = 1
            /\ (~run.pre[n].passive /\ Fresh(run.pre, n)) => run.calls[n] = 0
            /\ run.calls[n] = 1 => node[n].result = Recomputed(node, n)

\* A passive node changed its value and was run again; one node reading it
\* stayed as it was and another, recomputed for its cutoff, read the new value.
C10_Witness ==
    /\ Returned /\ since.kind = "nothing"
    /\ \E P \in Traversed, K \in Traversed, N \in Traversed :
          /\ run.pre[P].passive /\ run.pre[P].resultTs # NoTs
          /\ node[P].result # run.pre[P].result
          /\ P \in node[K].refs /\ ~node[K].passive
          /\ run.calls[K] = 0 /\ node[P].resultTs > node[K].resultTs
          /\ P \in node[N].refs /\ ~node[N].passive
          /\ run.pre[N].resultTs # NoTs
          /\ run.calls[N] = 1 /\ node[N].result # run.pre[N].result

(* ------------------------- add_node, then run_upto -------------------- *)
MaxRuns == 2

\* The empty dict of __init__.
EmptyDict == [n \in {} |-> 0]

\* self._all_nodes[id] = node_instance, reached only past the check of the id;
\* and a registry that is written before the id is checked.
RegisterUnchecked(st, id, rec, dup) ==
    [n \in DOMAIN st \cup {id} |-> IF n = id THEN rec ELSE st[n]]
Register(st, id, rec, dup) ==
    IF dup THEN st ELSE [n \in DOMAIN st \cup {id} |-> IF n = id THEN rec ELSE st[n]]

\* A graph with no node.
InitBuild ==
    /\ node = EmptyDict
    /\ dependencies = EmptyDict
    /\ autoSavePath = NoPath
    /\ disk = [p \in Paths |-> NoFile]
    /\ dryRun = FALSE
    /\ now = 1
    /\ pc = "idle"
    /\ batch = EmptyBatch
    /\ nodeIdx = 0
    /\ itemIdx = 0
    /\ errIdx = {}
    /\ stats = [completed |-> 0, failures |-> <<>>]
    /\ raised = "none"
    /\ log = <<>>
    /\ run = EmptyRun
    /\ since = Nothing
    /\ ops = 0
    /\ call = NoCall

\* add_node(id, SumInt, inputs). With a new id the inputs are a literal and up
\* to two of the nodes add_node returned before; with a registered id they are
\* literals, as in test_duplicate_node_id.
AddNode ==
    /\ pc = "idle"
    /\ \E id \in Nodes, refs \in SUBSET DOMAIN node :
          LET dup == id \in DOMAIN node
              rec == NewNode("sum", refs, 1, FALSE, 0, 0, FALSE)
          IN /\ Cardinality(refs) <= 2
             /\ dup => refs = {}
             /\ node' = Register(node, id, rec, dup)
             /\ dependencies' = Register(dependencies, id, refs, dup)
             /\ raised' = IF dup THEN "UnicityViolation" ELSE "none"
             /\ call' = [fn |-> "add_node", id |-> id, dup |-> dup]
    /\ UNCHANGED <<autoSavePath, disk, dryRun, now, batchVars, pc, log, runVars>>

\* run_upto(final_nodes) up to its loop, for a list of nodes of the graph.
RunSetStart ==
    /\ pc = "idle"
    /\ ops < MaxRuns
    /\ \E T \in SUBSET DOMAIN node :
          LET list == TopoSortSubgraph(T, dependencies)
              status == IF list = CycleDetected THEN "raised"
                        ELSE IF list = <<>> THEN "ok" ELSE "running"
          IN /\ run' = [EmptyRun EXCEPT !.target = T,
                                        !.list = IF list = CycleDetected THEN <<>> ELSE list,
                                        !.status = status,
                                        !.pre = node, !.preNow = now, !.since = since]
             /\ pc' = IF status = "running" THEN "running" ELSE "idle"
             /\ raised' = IF list = CycleDetected THEN "CycleDetected" ELSE "none"
    /\ since' = Nothing
    /\ ops' = ops + 1
    /\ UNCHANGED <<call, graphVars, batchVars, log>>

NextBuild ==
    \/ AddNode
    \/ RunSetStart
    \/ RunStep

SpecBuild == InitBuild /\ [][NextBuild]_vars

(* -------------------- Properties of add_node and run_upto ------------- *)
\* The nodes the inputs of n lead to, n left out: its upstream.
RECURSIVE Closure(_, _)
Closure(st, S) ==
    LET next == S \cup UNION {st[m].refs : m \in S}
    IN IF next = S THEN S ELSE Closure(st, next)

UpstreamOf(st, n) == Closure(st, st[n].refs)

\* Whether seq holds no element twice.
NoDuplicates(seq) == \A i, j \in 1..Len(seq) : seq[i] = seq[j] => i = j

\* Whether tail is what is left of seq after some of its first elements.
IsSuffix(tail, seq) ==
    /\ Len(tail) <= Len(seq)
    /\ \A k \in 1..Len(tail) : tail[k] = seq[Len(seq) - Len(tail) + k]

\* C11: run_upto(T) on a graph built with add_node visits each node reachable
\* from T exactly once; when a node is visited, every node upstream of it has
\* been visited in this traversal and has a result; UpstreamNotComputed is
\* never raised.
C11_StrictlyTopological ==
    /\ raised # "UpstreamNotComputed"
    /\ run.status # "none" =>
          LET order == TopoSortSubgraph(run.target, dependencies) IN
          /\ order # CycleDetected
          /\ NoDuplicates(order)
          /\ Range(order) = Closure(run.pre, run.target)
          /\ IsSuffix(run.list, order)
    /\ pc = "running" =>
          \A m \in UpstreamOf(node, Head(run.list)) :
              /\ m \in Closure(run.pre, run.target)
              /\ m \notin Range(run.list)
              /\ HasResult(node[m])

\* A visit of a node with an input of a greater id and an upstream node that
\* is not its input, some upstream node computed by an earlier run_upto.
C11_Witness ==
    /\ pc = "running"
    /\ Cardinality(run.target) > 1
    /\ LET n == Head(run.list) IN
       /\ \E m \in node[n].refs : m > n
       /\ UpstreamOf(node, n) # node[n].refs
       /\ \E m \in UpstreamOf(node, n) : HasResult(run.pre[m])
       /\ \E m \in UpstreamOf(node, n) : ~HasResult(run.pre[m])

(* --------------------------- topo_sort_subgraph ----------------------- *)
\* The graphs handed to graph_algorithms: a dict from some of the nodes to
\* sets of at most two nodes, cycles and nodes that are no key included.
Graphs ==
    UNION {[K -> {d \in SUBSET Nodes : Cardinality(d) <= 2}] : K \in SUBSET Nodes}

InitTopo ==
    /\ node = EmptyDict
    /\ dependencies \in Graphs
    /\ autoSavePath = NoPath
    /\ disk = [p \in Paths |-> NoFile]
    /\ dryRun = FALSE
    /\ now = 1
    /\ pc = "idle"
    /\ batch = EmptyBatch
    /\ nodeIdx = 0
    /\ itemIdx = 0
    /\ errIdx = {}
    /\ stats = [completed |-> 0, failures |-> <<>>]
    /\ raised = "none"
    /\ log = <<>>
    /\ run = EmptyRun
    /\ since = Nothing
    /\ ops = 0
    /\ call = NoCall

\* topo_sort_subgraph(start_nodes, dependencies)
TopoSortCall ==
    /\ \E T \in SUBSET Nodes :
          call' = [fn |-> "topo_sort_subgraph", start |-> T,
                   out |-> TopoSortSubgraph(T, dependencies)]
    /\ UNCHANGED <<graphVars, batchVars, runVars, pc, raised, log>>

NextTopo == TopoSortCall

SpecTopo == InitTopo /\ [][NextTopo]_vars

(* ---------------------- Properties of topo_sort_subgraph -------------- *)
\* dependencies.get(n, set())
DepsOf(G, n) == IF n \in DOMAIN G THEN G[n] ELSE {}

\* The nodes reachable from S along dependencies, S included.
RECURSIVE ReachFrom(_, _)
ReachFrom(G, S) ==
    LET next == S \cup UNION {DepsOf(G, n) : n \in S}
    IN IF next = S THEN S ELSE ReachFrom(G, next)

\* Whether n depends on itself, directly or not.
OnCycle(G, n) == n \in ReachFrom(G, DepsOf(G, n))

\* Whether order holds the nodes of R once each, dependencies first.
OrderOf(order, G, R) ==
    /\ order # CycleDetected
    /\ NoDuplicates(order)
    /\ Range(order) = R
    /\ \A i, j \in 1..Len(order) : order[i] \in DepsOf(G, order[j]) => i < j

\* C12 (as claimed): topo_sort_subgraph(T, G) returns the nodes reachable
\* from T once each and no other, every dependency before its dependents,
\* and fails with CycleDetected when G has any cycle.
C12_TopoSortAnyCycle ==
    call.fn = "topo_sort_subgraph" =>
        IF \E n \in Nodes : OnCycle(dependencies, n)
        THEN call.out = CycleDetected
        ELSE OrderOf(call.out, dependencies, ReachFrom(dependencies, call.start))

\* C12 (amended): the same, failing with CycleDetected exactly when a cycle
\* lies among the nodes reachable from T.
C12_TopoSortReachableCycle ==
    call.fn = "topo_sort_subgraph" =>
        LET R == ReachFrom(dependencies, call.start) IN
        IF \E n \in R : OnCycle(dependencies, n)
        THEN call.out = CycleDetected
        ELSE OrderOf(call.out, dependencies, R)

\* An order of two nodes, one the dependency of the other, from a graph
\* whose only cycle is out of their reach.
C12_Witness ==
    /\ call.fn = "topo_sort_subgraph"
    /\ Cardinality(call.start) = 1
    /\ call.out # CycleDetected
    /\ Len(call.out) = 2
    /\ \E n \in Nodes : OnCycle(dependencies, n)

(* ---------------------- persist, crash and restart -------------------- *)
\* A file cut short: open(path, "w") emptied it and json.dump did not finish.
Truncated == [truncated |-> TRUE]

\* A document an earlier, larger graph left behind: results of node 1 and of
\* a node this graph does not have.
OldDoc ==
    LET old == [name |-> "sum", output |-> 2, output_ts |-> 0, time |-> 0,
                passive |-> FALSE, overriden |-> FALSE, version |-> 0]
    IN JsonDump([i \in {1, NumNodes + 1} |-> old])

\* The same graph built anew: every node as add_node leaves it.
FreshOf(st) ==
    [n \in DOMAIN st |->
        NewNode(st[n].kind, st[n].refs, st[n].lit, st[n].passive, st[n].version,
                st[n].invalidateBefore, st[n].override)]

\* The graphs above that have inputs: plain, with node 1 passive, with node 1
\* added with force=True, with a manual_override_func on node 2, or plain
\* with the old document at path 1.
Attrs == {"plain", "passive", "forced", "override", "old document"}

InitPersist ==
    /\ \E g \in {h \in BatchGraphs : h[NumNodes].refs # {}}, a \in Attrs :
          /\ node = [n \in Nodes |->
                       NewNode(g[n].kind, g[n].refs,
                               IF a = "override" /\ n = 2 THEN 0 ELSE 1,
                               a = "passive" /\ n = 1, 0,
                               IF a = "forced" /\ n = 1 THEN FarFuture ELSE 0,
                               a = "override" /\ n = 2)]
          /\ disk = [p \in Paths |->
                       IF a = "old document" /\ p = 1 THEN OldDoc ELSE NoFile]
    /\ dependencies = DependenciesOf(node)
    /\ autoSavePath = NoPath
    /\ dryRun = FALSE
    /\ now = 1
    /\ pc = "idle"
    /\ batch = EmptyBatch
    /\ nodeIdx = 0
    /\ itemIdx = 0
    /\ errIdx = {}
    /\ stats = [completed |-> 0, failures |-> <<>>]
    /\ raised = "none"
    /\ log = <<>>
    /\ run = EmptyRun
    /\ since = Nothing
    /\ ops = 0
    /\ call = NoCall

\* persist(path) on the nodes st: the nodes, the path bound and the error
\* afterwards. json.load raises on a file cut short: by then reset() has run
\* and the path is not bound yet.
PersistOrRaise(st, dsk, cur, path) ==
    IF dsk[path] = Truncated
    THEN [st |-> ResetAll(st), path |-> cur, raised |-> "JSONDecodeError"]
    ELSE [st |-> Persist(st, dsk, path), path |-> path, raised |-> "none"]

\* graph.persist(path), called once by a program.
PersistCall ==
    /\ CanCall
    /\ autoSavePath = NoPath
    /\ \E path \in Paths :
          LET r == PersistOrRaise(node, disk, autoSavePath, path) IN
          /\ node' = r.st
          /\ autoSavePath' = r.path
          /\ raised' = r.raised
          /\ since' = [kind |-> "persist", path |-> path,
                       had |-> {n \in Nodes : HasResult(node[n])}]
    /\ ops' = ops + 1
    /\ UNCHANGED <<call, dependencies, disk, dryRun, now, batchVars, pc, log, run>>

RECURSIVE RunAll(_, _, _)
\* The rest of the loop of run_upto, no process raising: the value returned.
RunAll(st, list, clock) ==
    LET r == InternalRun(st, Head(list), clock, FALSE, FALSE) IN
    IF Len(list) = 1 THEN r.st[Head(list)].result
    ELSE RunAll(r.st, Tail(list), IF r.fired THEN clock + 1 ELSE clock)

\* The nodes the run_upto under way has visited.
Visited == Range(TopoSortSubgraph({run.target}, dependencies)) \ Range(run.list)

\* The program dies between two passes of the loop of run_upto, a path being
\* bound; the next program builds the graph anew and calls persist(path).
Crash ==
    /\ pc = "running"
    /\ autoSavePath # NoPath
    /\ \E path \in Paths :
          LET r == PersistOrRaise(FreshOf(node), disk, NoPath, path) IN
          /\ node' = r.st
          /\ autoSavePath' = r.path
          /\ raised' = r.raised
          /\ since' = [kind |-> "crash", same |-> path = autoSavePath,
                       target |-> run.target, done |-> Visited,
                       had |-> {n \in Nodes : HasResult(node[n])},
                       expect |-> RunAll(node, run.list, now)]
    /\ pc' = "idle"
    /\ run' = [run EXCEPT !.status = "crashed", !.list = <<>>]
    /\ UNCHANGED <<call, dependencies, disk, dryRun, now, batchVars, log, ops>>

\* The program dies inside _save_to, after open(path, "w") and before
\* json.dump has written the document; the next program builds the graph anew
\* and calls persist(path).
CrashInSave ==
    /\ pc = "running"
    /\ autoSavePath # NoPath
    /\ ~dryRun
    /\ InternalRun(node, Head(run.list), now, dryRun, FALSE).fired
    /\ \E path \in Paths :
          LET torn == [disk EXCEPT ![autoSavePath] = Truncated]
              r == PersistOrRaise(FreshOf(node), torn, NoPath, path)
          IN /\ disk' = torn
             /\ node' = r.st
             /\ autoSavePath' = r.path
             /\ raised' = r.raised
             /\ since' = [kind |-> "crash in save", same |-> path = autoSavePath]
    /\ pc' = "idle"
    /\ run' = [run EXCEPT !.status = "crashed", !.list = <<>>]
    /\ now' = now + 1
    /\ UNCHANGED <<call, dependencies, dryRun, batchVars, log, ops>>

\* test_persistence: json.loads(json.dumps(results_dict)) is loaded into the
\* graph made again.
Rebuild ==
    /\ pc = "idle"
    /\ run.status = "ok"
    /\ since.kind = "nothing"
    /\ node' = LoadResultsDict(FreshOf(node), JsonRoundTrip(JsonDump(ResultsDict(node))))
    /\ autoSavePath' = NoPath
    /\ since' = [kind |-> "rebuild", dict |-> ResultsDict(node)]
    /\ UNCHANGED <<call, dependencies, disk, dryRun, now, batchVars, pc, raised, log,
                   run, ops>>

NextPersist ==
    \/ PersistCall
    \/ RunStart
    \/ RunStep
    \/ Crash
    \/ CrashInSave
    \/ Rebuild

SpecPersist == InitPersist /\ [][NextPersist]_vars

(* --------------- Properties of persist, crash and restart ------------- *)
\* The run_upto that ended repeats the one before the graph was made again.
RepeatedOnRebuilt ==
    /\ pc = "idle" /\ run.status \in {"ok", "raised"}
    /\ run.repeat /\ run.since.kind = "rebuild"

\* C13 (as claimed): after a successful run, results_dict through a JSON
\* round trip and _load_results_dict into the graph made again gives an equal
\* results_dict, and run_upto on the same target returns the same value
\* with no process invoked.
C13_SurvivesRestart ==
    /\ since.kind = "rebuild" => ResultsDict(node) = since.dict
    /\ RepeatedOnRebuilt =>
          /\ run.status = "ok"
          /\ run.ret = run.prevRet
          /\ \A n \in Traversed : run.calls[n] = 0

\* C13 (amended): the results_dict is equal for every graph; the same value
\* with no process invoked, for traversals with no passive node and no node
\* whose invalidate_before is ahead of the clock (force=True).
C13_SurvivesRestartNoPassiveForced ==
    /\ since.kind = "rebuild" => ResultsDict(node) = since.dict
    /\ (/\ RepeatedOnRebuilt
        /\ \A n \in Traversed :
              ~run.pre[n].passive /\ run.pre[n].invalidateBefore <= run.preNow) =>
          /\ run.status = "ok"
          /\ run.ret = run.prevRet
          /\ \A n \in Traversed : run.calls[n] = 0

\* A run over three nodes of the graph made again, one of them loaded with
\* its overridden flag set, that invoked nothing.
C13_Witness ==
    /\ RepeatedOnRebuilt
    /\ run.status = "ok"
    /\ Cardinality(Traversed) = NumNodes
    /\ \A n \in Traversed : run.calls[n] = 0 /\ run.prevCalls[n] = 1
    /\ \E n \in Traversed : run.pre[n].wasOverridden

\* C14: after persist(path) returns, a node has a result iff its id is a key
\* of the document at path, with the stored result, version, timestamp and
\* time; every other node, and every node when there is no file, has no
\* result; keys that are no ids of the graph are skipped; path is bound.
C14_PersistReflectsDisk ==
    (since.kind = "persist" /\ raised = "none") =>
        LET doc == disk[since.path] IN
        /\ autoSavePath = since.path
        /\ \A n \in Nodes :
              IF doc # NoFile /\ IntToStr(n) \in DOMAIN doc
              THEN /\ HasResult(node[n])
                   /\ node[n].result = doc[IntToStr(n)].output
                   /\ node[n].resultVersion = doc[IntToStr(n)].version
                   /\ node[n].resultTs = doc[IntToStr(n)].output_ts
                   /\ node[n].time = doc[IntToStr(n)].time
              ELSE ~HasResult(node[n]) /\ node[n].result = NoneVal

\* persist(path) on a graph with results in memory, of a document that holds
\* one node of the graph and one that is not of the graph.
C14_Witness ==
    /\ since.kind = "persist" /\ raised = "none"
    /\ disk[since.path] # NoFile
    /\ \E n \in since.had : ~HasResult(node[n])
    /\ \E n \in Nodes : HasResult(node[n])
    /\ \E k \in DOMAIN disk[since.path] : StrToInt(k) \notin Nodes

\* C15: whenever the program dies during an auto-save, the file at the bound
\* path holds the complete previous document or the complete new one, never
\* a document cut short, so that a later persist(path) loads it.
C15_AtomicWrites ==
    /\ \A p \in Paths : disk[p] # Truncated
    /\ raised # "JSONDecodeError"

\* The run_upto that returned resumes the one the crash interrupted: persist
\* of the same path on the graph made again, then the same target.
Resumed ==
    /\ Returned
    /\ run.since.kind = "crash"
    /\ run.since.same
    /\ run.target = run.since.target

\* Whether invalidate_before of n was ahead of the clock (force=True).
Forced(n) == run.pre[n].invalidateBefore > run.preNow

C16_DryRunInert ==
    dryRun =>
        /\ \A n \in Nodes : ~node[n].lazy
        /\ \A p \in 1..Len(log) : log[p][1] # "process"
        /\ \A path \in Paths : disk[path] = NoFile

(* ------------------------ Properties of add_node ---------------------- *)
\* A step that is a call of add_node.
AddNodeStep == call'.fn = "add_node" /\ call' # call

\* C18: add_node with an id that is registered raises UnicityViolation and
\* leaves the registry, the dependency map and the node of that id (inputs,
\* version, result) as they were; with a new id it registers that id and
\* leaves every other node as it was. The ids of the graph stay unique.
C18_DuplicateIdRefused ==
    [][AddNodeStep =>
          IF call'.id \in DOMAIN node
          THEN /\ call'.dup
               /\ raised' = "UnicityViolation"
               /\ node' = node
               /\ dependencies' = dependencies
          ELSE /\ raised' = "none"
               /\ DOMAIN node' = DOMAIN node \cup {call'.id}
               /\ DOMAIN dependencies' = DOMAIN node'
               /\ Cardinality(DOMAIN node') = Cardinality(DOMAIN node) + 1
               /\ \A n \in DOMAIN node :
                     node'[n] = node[n] /\ dependencies'[n] = dependencies[n]]_vars

\* add_node refused for the id of a node that has inputs and a result.
C18_Witness ==
    /\ call.fn = "add_node" /\ call.dup
    /\ raised = "UnicityViolation"
    /\ HasResult(node[call.id])
    /\ node[call.id].refs # {}

(* ----------------------------- type_util.py --------------------------- *)
\* The longest list or tuple matched.
MaxLen == 2

\* Values of Python: 1, 2, True, 1.0, "a", and the lists and tuples of them.
Scalar(tag, v) == [tag |-> tag, v |-> v, items |-> <<>>]
Scalars ==
    {Scalar("int", 1), Scalar("int", 2), Scalar("bool", 1), Scalar("float", 1),
     Scalar("str", 1)}
ItemSeqs == UNION {[1..k -> Scalars] : k \in 0..MaxLen}
Values ==
    Scalars \cup {[tag |-> t, v |-> 0, items |-> q] : t \in {"list", "tuple"}, q \in ItemSeqs}

\* Annotations: a class, Any, list[T], tuple[T1] and tuple[T1, T2],
\* typing.Union[T1, T2]; origin is typing.get_origin, args typing.get_args.
Simple(name) == [origin |-> "None", name |-> name, args |-> <<>>]
SimpleTypes == {Simple(c) : c \in {"int", "float", "bool", "str", "Any"}}
Types ==
    SimpleTypes \cup {Simple("list")}
    \cup {[origin |-> o, name |-> o, args |-> <<t>>] : o \in {"list", "tuple"}, t \in SimpleTypes}
    \cup {[origin |-> o, name |-> o, args |-> <<t, u>>] :
             o \in {"tuple", "Union"}, t \in SimpleTypes, u \in SimpleTypes}

\* isinstance(obj, cls): bool is a subclass of int.
IsInstance(obj, cls) ==
    IF cls = "int" THEN obj.tag \in {"int", "bool"} ELSE obj.tag = cls

RECURSIVE Matches(_, _)
\* type_util.matches(obj, typ)
Matches(obj, typ) ==
    IF typ = Simple("float")
    THEN (IsInstance(obj, "int") \/ IsInstance(obj, "float")) /\ ~IsInstance(obj, "bool")
    ELSE IF typ.origin = "None"
    THEN IF typ.name = "Any" THEN TRUE ELSE IsInstance(obj, typ.name)
    ELSE IF typ.origin = "Union"
    THEN \E k \in 1..Len(typ.args) : Matches(obj, typ.args[k])
    ELSE IF typ.origin = "tuple"
    THEN IF ~(IsInstance(obj, "list") \/ IsInstance(obj, "tuple")) THEN FALSE
         ELSE IF Len(obj.items) # Len(typ.args) THEN FALSE
         ELSE \A k \in 1..Len(obj.items) : Matches(obj.items[k], typ.args[k])
    ELSE IF ~IsInstance(obj, typ.origin) THEN FALSE
         ELSE IF typ.args = <<>> THEN TRUE
         ELSE \A k \in 1..Len(obj.items) : Matches(obj.items[k], typ.args[1])

\* A value and an annotation at hand.
InitTypes ==
    /\ call \in {[fn |-> "none", obj |-> o, typ |-> t] : o \in Values, t \in Types}
    /\ node = EmptyDict
    /\ dependencies = EmptyDict
    /\ autoSavePath = NoPath
    /\ disk = [p \in Paths |-> NoFile]
    /\ dryRun = FALSE
    /\ now = 1
    /\ pc = "idle"
    /\ batch = EmptyBatch
    /\ nodeIdx = 0
    /\ itemIdx = 0
    /\ errIdx = {}
    /\ stats = [completed |-> 0, failures |-> <<>>]
    /\ raised = "none"
    /\ log = <<>>
    /\ run = EmptyRun
    /\ since = Nothing
    /\ ops = 0

\* matches(obj, typ)
MatchesCall ==
    /\ call.fn = "none"
    /\ call' = [fn |-> "matches", obj |-> call.obj, typ |-> call.typ,
                out |-> Matches(call.obj, call.typ)]
    /\ UNCHANGED <<graphVars, batchVars, runVars, pc, raised, log>>

NextTypes == MatchesCall

SpecTypes == InitTypes /\ [][NextTypes]_vars

(* ------------------------- Properties of matches ---------------------- *)
RECURSIVE RuleMatches(_, _)
\* The rules of the matcher: an integer is no boolean, a floating-point is
\* an integer or a floating-point and no boolean, a boolean only a boolean; a
\* list is a list whose elements match; a tuple is a tuple or a list of that
\* length whose positions match; a union is any of its branches.
RuleMatches(obj, typ) ==
    CASE typ.origin = "Union" -> \E k \in 1..Len(typ.args) : RuleMatches(obj, typ.args[k])
      [] typ.origin = "tuple" ->
            /\ obj.tag \in {"list", "tuple"}
            /\ Len(obj.items) = Len(typ.args)
            /\ \A k \in 1..Len(typ.args) : RuleMatches(obj.items[k], typ.args[k])
      [] typ.origin = "list" ->
            /\ obj.tag = "list"
            /\ \A k \in 1..Len(obj.items) : RuleMatches(obj.items[k], typ.args[1])
      [] typ.name = "Any" -> TRUE
      [] typ.name = "float" -> obj.tag \in {"int", "float"}
      [] OTHER -> obj.tag = typ.name

\* C19: matches(value, type) is what the rules say for every value and type:
\* matches([1, 2], tuple[int, int]), not matches((1, 2), list[int]), not
\* matches(1, bool), not matches(True, int), not matches(1.0, int),
\* matches(1, float), not matches(True, float).
C19_MatchesTheRules ==
    call.fn = "matches" => call.out = RuleMatches(call.obj, call.typ)

(* ------------------------- manual_override_func ----------------------- *)
\* The graphs of the tests that have inputs, the constant of node 1 being any
\* value, and any of the nodes added with a manual_override_func.
InitOverride ==
    /\ \E g \in {h \in BatchGraphs : h[NumNodes].refs # {}},
          l \in 0..(ValMod - 1), ov \in SUBSET Nodes :
          node = [n \in Nodes |->
                    NewNode(g[n].kind, g[n].refs, IF n = 1 THEN l ELSE 1, FALSE, 0, 0,
                            n \in ov)]
    /\ dependencies = DependenciesOf(node)
    /\ autoSavePath = NoPath
    /\ disk = [p \in Paths |-> NoFile]
    /\ dryRun = FALSE
    /\ now = 1
    /\ pc = "idle"
    /\ batch = EmptyBatch
    /\ nodeIdx = 0
    /\ itemIdx = 0
    /\ errIdx = {}
    /\ stats = [completed |-> 0, failures |-> <<>>]
    /\ raised = "none"
    /\ log = <<>>
    /\ run = EmptyRun
    /\ since = Nothing
    /\ ops = 0
    /\ call = NoCall

\* node3.reset(), as test_manual_override does once between two runs.
ResetNode ==
    /\ CanEdit
    /\ since.kind = "nothing"
    /\ \E n \in Nodes :
          /\ HasResult(node[n])
          /\ node' = [node EXCEPT ![n] = Reset(@)]
    /\ since' = [kind |-> "change"]
    /\ ops' = ops + 1
    /\ UNCHANGED <<call, dependencies, autoSavePath, disk, dryRun, now, batchVars, pc,
                   raised, log, run>>

NextOverride ==
    \/ RunStart
    \/ RunStep
    \/ ResetNode

SpecOverride == InitOverride /\ [][NextOverride]_vars

(* ------------------ Properties of manual_override_func ---------------- *)
\* A pass of the loop of run_upto that invoked process of the node at hand.
InvokedStep == pc = "running" /\ run.calls' # run.calls

\* What a downstream node is to receive for node m.
Received(m) == IF node[m].override THEN OverrideFn(node[m].result) ELSE node[m].result

\* The nodes read to fill the inputs of n: its inputs, and the nodes read to
\* fill the inputs of those that have a manual_override_func.
RECURSIVE ReadFor(_)
ReadFor(n) ==
    node[n].refs \cup UNION {ReadFor(m) : m \in {k \in node[n].refs : node[k].override}}

\* The sum of Received over the nodes of S.
RECURSIVE SumReceived(_)
SumReceived(S) ==
    IF S = {} THEN 0
    ELSE LET m == CHOOSE k \in S : TRUE IN Received(m) + SumReceived(S \ {m})

\* C20: a node invoked receives override_fn(result) for each input that has
\* a manual_override_func and the stored result for each other input; the
\* stored results of the nodes read are unchanged; the flag of a node read
\* becomes set exactly when its override_fn returned a value unequal to its
\* stored result, else stays as it was; a node with no manual_override_func
\* is never flagged.
C20_OverrideHook ==
    [][InvokedStep =>
          LET n == Head(run.list) IN
          /\ (raised' = "none" /\ node[n].kind = "sum") =>
                node'[n].result = (node[n].lit + SumReceived(node[n].refs)) % ValMod
          /\ \A m \in Nodes \ {n} : node'[m].result = node[m].result
          /\ \A m \in Nodes :
                /\ node'[m].wasOverridden =
                      (\/ node[m].wasOverridden
                       \/ (/\ m \in ReadFor(n)
                           /\ node[m].override
                           /\ OverrideFn(node[m].result) # node[m].result))
                /\ ~node[m].override => ~node'[m].wasOverridden]_vars

\* A node was invoked with two inputs that have a manual_override_func: one
\* whose stored result the function changed, now flagged, and one whose
\* stored result it returned, not flagged.
C20_Witness ==
    /\ run.status = "ok"
    /\ run.calls[run.target] = 1
    /\ \E m, k \in node[run.target].refs :
          /\ node[m].override /\ node[m].wasOverridden
          /\ node[m].result # OverrideFn(node[m].result)
          /\ node[k].override /\ ~node[k].wasOverridden
          /\ node[k].result = OverrideFn(node[k].result)

(* ----------------------------- _needs_update -------------------------- *)
\* The latest timestamp of a stored result.
MaxTs == 2

\* The graphs of the tests in any state of their results: the last node
\* passive or not, with or without a result, of any version, stamped at any
\* time, invalidated before time 0 or time MaxTs; every node before it passive
\* or not, with or without a result stamped at any time.
InitStale ==
    /\ \E g \in BatchGraphs,
          pas \in [Nodes -> BOOLEAN],
          ts \in [Nodes -> {NoTs} \cup 0..MaxTs],
          rv \in 0..MaxVersion, ib \in {0, MaxTs} :
          node = [n \in Nodes |->
                    [NewNode(g[n].kind, g[n].refs, 1, pas[n], 0,
                             IF n = NumNodes THEN ib ELSE 0, FALSE)
                       EXCEPT !.resultTs = ts[n],
                              !.time = IF ts[n] = NoTs THEN NoTs ELSE 0,
                              !.result = IF ts[n] = NoTs THEN NoneVal ELSE 1,
                              !.resultVersion = IF n = NumNodes THEN rv ELSE 0]]
    /\ dependencies = DependenciesOf(node)
    /\ autoSavePath = NoPath
    /\ disk = [p \in Paths |-> NoFile]
    /\ dryRun = FALSE
    /\ now = MaxTs + 1
    /\ pc = "idle"
    /\ batch = EmptyBatch
    /\ nodeIdx = 0
    /\ itemIdx = 0
    /\ errIdx = {}
    /\ stats = [completed |-> 0, failures |-> <<>>]
    /\ raised = "none"
    /\ log = <<>>
    /\ run = EmptyRun
    /\ since = Nothing
    /\ ops = 0
    /\ call = NoCall

\* node._needs_update()
NeedsUpdateCall ==
    /\ \E n \in Nodes :
          call' = [fn |-> "needs_update", n |-> n, out |-> NeedsUpdate(node, n)]
    /\ UNCHANGED <<graphVars, batchVars, runVars, pc, raised, log>>

NextStale == NeedsUpdateCall

SpecStale == InitStale /\ [][NextStale]_vars

(* ---------------------- Properties of _needs_update ------------------- *)
\* The rule of staleness for node n, condition by condition.
IsPassive(n) == node[n].passive
NoResult(n) == node[n].resultTs = NoTs
VersionDiffers(n) == node[n].resultVersion # node[n].version
Invalidated(n) == node[n].resultTs < node[n].invalidateBefore
NewerInput(n) ==
    \E m \in node[n].refs :
        ~node[m].passive /\ node[m].resultTs # NoTs /\ node[m].resultTs > node[n].resultTs

\* C21: needs_update() is true iff the node is passive, or has no result, or
\* its result_version differs from its version, or its result_timestamp is
\* before invalidate_before, or some input that is a non-passive node with a
\* result has a strictly later result_timestamp; an input with an equal
\* timestamp, a passive input or an input without a result does not count.
C21_NeedsUpdateRule ==
    call.fn = "needs_update" =>
        (call.out <=> (\/ IsPassive(call.n) \/ NoResult(call.n) \/ VersionDiffers(call.n)
                       \/ Invalidated(call.n) \/ NewerInput(call.n)))

\* needs_update() false for a node with two inputs: one passive and stamped
\* later, one not passive and stamped at the same time.
C21_Witness ==
    /\ call.fn = "needs_update" /\ ~call.out
    /\ \E m, k \in node[call.n].refs :
          /\ node[m].passive /\ node[m].resultTs > node[call.n].resultTs
          /\ ~node[k].passive /\ node[k].resultTs = node[call.n].resultTs

(* ------------------------- Properties of auto-save -------------------- *)
\* A pass of the loop of run_upto in which the result callback fired.
ResultStep == pc = "running" /\ now' # now /\ run'.status # "crashed"

\* The document of the nodes st: a key str(id) for each node that has a
\* result, with what to_persist gives for it.
DocumentOf(st) ==
    [k \in {IntToStr(n) : n \in {m \in DOMAIN st : st[m].resultTs # NoTs}} |->
        ToPersist(st[StrToInt(k)])]

\* C22: with a path bound and dry_run off, after every node execution whose
\* result callback fired the file at the bound path is the document of
\* results_dict, with an entry for exactly the nodes that have a result, and
\* no other file changed; with no path bound no file changed.
C22_AutoSaveInStep ==
    [][ResultStep =>
          IF autoSavePath # NoPath /\ ~dryRun
          THEN /\ disk'[autoSavePath] = DocumentOf(node')
               /\ \A p \in Paths \ {autoSavePath} : disk'[p] = disk[p]
          ELSE disk' = disk]_vars

\* In the middle of a run with a path bound: two nodes computed and in the
\* file, a third with no result and not in it.
C22_Witness ==
    /\ pc = "running"
    /\ autoSavePath # NoPath
    /\ disk[autoSavePath] = DocumentOf(node)
    /\ Cardinality({n \in Nodes : run.calls[n] = 1 /\ HasResult(node[n])}) = 2
    /\ \E n \in Nodes : ~HasResult(node[n])

(* --------------------- reset and release_resources -------------------- *)
\* The graphs of the tests that have inputs, no node computed yet.
InitRelease ==
    /\ \E g \in {h \in BatchGraphs : h[NumNodes].refs # {}}, l \in 0..(ValMod - 1) :
          node = [n \in Nodes |->
                    NewNode(g[n].kind, g[n].refs, IF n = 1 THEN l ELSE 1, FALSE, 0, 0,
                            FALSE)]
    /\ dependencies = DependenciesOf(node)
    /\ autoSavePath = NoPath
    /\ disk = [p \in Paths |-> NoFile]
    /\ dryRun = FALSE
    /\ now = 1
    /\ pc = "idle"
    /\ batch = EmptyBatch
    /\ nodeIdx = 0
    /\ itemIdx = 0
    /\ errIdx = {}
    /\ stats = [completed |-> 0, failures |-> <<>>]
    /\ raised = "none"
    /\ log = <<>>
    /\ run = EmptyRun
    /\ since = Nothing
    /\ ops = 0
    /\ call = NoCall

\* The calls of finalize that release_resources makes on the nodes st.
FinalizeEvents(st) ==
    LET q == SortedSeq({n \in DOMAIN st : st[n].lazy})
    IN [i \in 1..Len(q) |-> <<"finalize", q[i], 0>>]

\* graph.release_resources(), as test_compute_only_once does between two runs.
ReleaseCall ==
    /\ CanEdit
    /\ since.kind = "nothing"
    /\ node' = ReleaseResources(node)
    /\ log' = log \o FinalizeEvents(node)
    /\ since' = [kind |-> "release"]
    /\ ops' = ops + 1
    /\ UNCHANGED <<call, dependencies, autoSavePath, disk, dryRun, now, batchVars, pc,
                   raised, run>>

NextRelease ==
    \/ RunStart
    \/ RunStep
    \/ ResetNode
    \/ ReleaseCall

SpecRelease == InitRelease /\ [][NextRelease]_vars

(* -------------- Properties of reset and release_resources ------------- *)
\* How many times finalize of the processor of node n was called.
Finalized(lg, n) == Cardinality({p \in 1..Len(lg) : lg[p] = <<"finalize", n, 0>>})

ResetStep == ops' # ops /\ since'.kind = "change"
ReleaseStep == ops' # ops /\ since'.kind = "release"

\* The calls: reset() clears result, result_timestamp and compute_time
\* of its node and leaves its processor instance, inputs, version and
\* invalidate_before, and every other node, as they were, with no finalize;
\* release_resources() calls finalize once on each processor instantiated
\* and on no other, and leaves no instance and no result.
C23_ResetKeepsReleaseDrops ==
    [][/\ ResetStep =>
            /\ log' = log
            /\ \E n \in Nodes :
                  /\ HasResult(node[n])
                  /\ node'[n].result = NoneVal
                  /\ node'[n].resultTs = NoTs
                  /\ node'[n].time = NoTs
                  /\ node'[n].lazy = node[n].lazy
                  /\ node'[n].refs = node[n].refs /\ node'[n].lit = node[n].lit
                  /\ node'[n].version = node[n].version
                  /\ node'[n].invalidateBefore = node[n].invalidateBefore
                  /\ \A m \in Nodes \ {n} : node'[m] = node[m]
       /\ ReleaseStep =>
            \A n \in Nodes :
                /\ Finalized(log', n) = Finalized(log, n) + (IF node[n].lazy THEN 1 ELSE 0)
                /\ ~node'[n].lazy
                /\ ~HasResult(node'[n]) /\ node'[n].result = NoneVal]_vars

\* The run_upto that returned is the first since a reset or a release, and
\* nothing was called on the graph after it.
AfterReset == Returned /\ since.kind = "nothing" /\ run.since.kind = "change"
AfterRelease == Returned /\ since.kind = "nothing" /\ run.since.kind = "release"

\* The next run: after reset() process is invoked again on the node, on
\* the instance it had; after release_resources() every node traversed is
\* invoked on an instance made in that run.
C23_NextRunSameOrNewInstance ==
    /\ AfterReset =>
          \A n \in Traversed :
              (~HasResult(run.pre[n]) /\ run.pre[n].lazy) =>
                  run.calls[n] = 1 /\ node[n].lazy /\ Finalized(log, n) = 0
    /\ AfterRelease =>
          \A n \in Traversed :
              /\ ~run.pre[n].lazy
              /\ run.calls[n] = 1 /\ node[n].lazy

\* C23: reset() drops the cached result fields only, so that the next
\* run_upto invokes process on the processor instance the node had;
\* release_resources() calls finalize once on each instantiated processor,
\* drops the instance and the result, so that the next run_upto makes a new
\* instance.
C23_ResetAndRelease == C23_ResetKeepsReleaseDrops /\ []C23_NextRunSameOrNewInstance

\* A run after release_resources() that had finalized three processors.
C23_Witness ==
    /\ AfterRelease
    /\ Cardinality(Traversed) = NumNodes
    /\ \A n \in Nodes : Finalized(log, n) = 1 /\ run.calls[n] = 1 /\ node[n].lazy

\* A run after reset() of a node that kept its processor.
C23_WitnessReset ==
    /\ AfterReset
    /\ \E n \in Traversed : ~HasResult(run.pre[n]) /\ run.pre[n].lazy /\ run.calls[n] = 1

(* ---------------------- Properties of a failed process ---------------- *)
\* A pass of the loop of run_upto in which process raised.
FailedStep == pc = "running" /\ raised' = "ProcessorFailure"

\* Whether node n of st is due on a traversal.
DueIn(st, n) ==
    \/ st[n].passive
    \/ st[n].resultTs = NoTs
    \/ st[n].resultVersion # st[n].version
    \/ st[n].resultTs < st[n].invalidateBefore
    \/ \E m \in st[n].refs :
          ~st[m].passive /\ st[m].resultTs # NoTs /\ st[m].resultTs > st[n].resultTs

\* C24: when process of a node raises, the result, result_timestamp,
\* result_version and compute_time of the node are as before the call, the
\* result callback does not fire and nothing is saved, and the node is still
\* due on the next traversal.
C24_FailedProcessWritesNothing ==
    [][FailedStep =>
          LET n == Head(run.list) IN
          /\ node'[n].result = node[n].result
          /\ node'[n].resultTs = node[n].resultTs
          /\ node'[n].resultVersion = node[n].resultVersion
          /\ node'[n].time = node[n].time
          /\ disk' = disk
          /\ now' = now
          /\ DueIn(node', n)]_vars

\* process of a passive node that had a result raised, a path being bound
\* and a document at it.
C24_Witness ==
    /\ pc = "idle" /\ run.status = "raised" /\ raised = "ProcessorFailure"
    /\ autoSavePath # NoPath
    /\ disk[autoSavePath] \notin {NoFile, Truncated}
    /\ \E n \in Nodes :
          /\ run.calls[n] = 1
          /\ HasResult(run.pre[n])
          /\ node[n].resultTs = run.pre[n].resultTs

(* ------------- Properties of release_resources in process_batch ------- *)
\* The inner loop of the node at nodeIdx has ended, and that node is listed
\* in release_after_nodes.
AtListedNodeEnd ==
    /\ pc = "batch"
    /\ nodeIdx <= Len(batch.nodesToRun)
    /\ itemIdx > Len(batch.items)
    /\ batch.nodesToRun[nodeIdx] \in batch.releaseAfter

\* Both loops have ended.
AtBatchEnd == pc = "batch" /\ nodeIdx > Len(batch.nodesToRun)

\* No node holds a processor instance or a result in memory.
AllReleased == \A n \in Nodes : ~node[n].lazy /\ node[n].resultTs = NoTs

\* Release only at node boundaries: a processor instance is dropped only by
\* the step after the inner loop of a listed node or after the last node,
\* and those steps leave no instance and no result in memory.
ReleaseAtBoundaries ==
    [][/\ (\E n \in Nodes : node[n].lazy /\ ~node'[n].lazy) =>
            (AtListedNodeEnd \/ AtBatchEnd)
       /\ (AtListedNodeEnd \/ AtBatchEnd) => AllReleased']_vars

\* C25: in process_batch release_resources() is called only after the inner
\* loop of a node listed in release_after_nodes has ended for all items,
\* never between two items, so that a processor is made at most once for
\* the items of its node, and once more after the last node; on return no
\* node holds a processor instance or a result in memory.
C25_ReleaseAtNodeBoundaries == ReleaseAtBoundaries /\ [](pc = "done" => AllReleased)

\* A batch returned after process of one node ran for two items, every node
\* being listed in release_after_nodes.
C25_Witness ==
    /\ pc = "done"
    /\ batch.releaseAfter = Nodes
    /\ Len(batch.nodesToRun) = NumNodes
    /\ \E n \in Nodes :
          /\ \E p \in 1..Len(log) : log[p] = <<"process", n, 1>>
          /\ \E p \in 1..Len(log) : log[p] = <<"process", n, 2>>

(* --------------- Properties of the files of process_batch ------------- *)
\* A pass of the inner loop of process_batch that wrote a file.
BatchWriteStep == pc = "batch" /\ disk' # disk

\* The entries of the file at path p.
EntriesOf(dsk, p) == IF dsk[p] = NoFile THEN EmptyDict ELSE dsk[p]

\* C26: prep_fn binding the path of its item, a pass of process_batch for
\* item i writes the file of item i only, and every entry of the document
\* written is the result of the node just run for item i or an entry the
\* file of item i held before: no result computed or loaded for another
\* item gets into it.
C26_ItemIsolation ==
    [][BatchWriteStep =>
          LET n == batch.nodesToRun[nodeIdx]
              old == EntriesOf(disk, itemIdx)
              new == EntriesOf(disk', itemIdx)
          IN /\ \A p \in Paths \ {itemIdx} : disk'[p] = disk[p]
             /\ IntToStr(n) \in DOMAIN new
             /\ new[IntToStr(n)].output_ts = now
             /\ \A k \in DOMAIN new \ {IntToStr(n)} :
                   k \in DOMAIN old /\ new[k] = old[k]]_vars

\* A batch that went through every node for two items, with no release
\* between the nodes: one file for each item, of all the nodes.
C26_Witness ==
    /\ pc = "done"
    /\ batch.releaseAfter = {}
    /\ \A p \in Paths :
          disk[p] # NoFile /\ Cardinality(DOMAIN disk[p]) = NumNodes
    /\ disk[1] # disk[2]

(* ------------------ Properties of staleness in one run ---------------- *)
\* The nodes that read S through inputs that are not passive: those with an
\* input in S, and those that read such a node that is not passive.
RECURSIVE ReadersOf(_)
ReadersOf(S) ==
    LET more == S \cup {d \in Nodes : \E m \in node[d].refs :
                                        m \in S /\ ~node[m].passive}
    IN IF more = S THEN S ELSE ReadersOf(more)

\* No result was stamped at or after the clock of the start of the run.
StampedBefore == \A n \in Nodes : run.pre[n].resultTs < run.preNow

\* run_upto returned and nothing was done to the graph since.
JustReturned == Returned /\ since.kind = "nothing"

\* C27: the clock not running backwards and no stored timestamp ahead of it,
\* when run_upto re-executes a non-passive node M it re-executes every
\* traversed node that reads M through a chain of inputs that are not
\* passive, so that afterwards no traversed non-passive node has a result
\* older than that of a non-passive input.
C27_StalenessPropagates ==
    (JustReturned /\ StampedBefore) =>
        /\ \A M \in Traversed :
              (~node[M].passive /\ run.calls[M] = 1) =>
                  \A D \in ReadersOf({M}) \cap Traversed : run.calls[D] = 1
        /\ \A n \in Traversed :
              \A m \in node[n].refs :
                  (~node[n].passive /\ ~node[m].passive) =>
                      node[m].resultTs <= node[n].resultTs

\* A run that re-executed the first node of a chain of three that all had
\* results, and the two nodes after it with it.
C27_Witness ==
    /\ JustReturned /\ StampedBefore
    /\ Cardinality(Traversed) = NumNodes
    /\ \A n \in Nodes : HasResult(run.pre[n]) /\ ~node[n].passive /\ run.calls[n] = 1
    /\ \E M \in Nodes : ReadersOf({M}) = Nodes /\ node[NumNodes].refs = {NumNodes - 1}
    /\ \A n \in Nodes \ {1} :
          /\ run.pre[n].resultTs >= run.pre[1].resultTs
          /\ run.pre[n].invalidateBefore = 0
          /\ run.pre[n].resultVersion = run.pre[n].version

(* ------------------------- persist on a new path ---------------------- *)
\* graph.persist(path) at any time, as prep_fn of process_batch calls it for
\* one item after another: the graph that worked on one path is bound to the
\* next.
Rebind ==
    /\ CanCall
    /\ \E path \in Paths :
          LET r == PersistOrRaise(node, disk, autoSavePath, path) IN
          /\ node' = r.st
          /\ autoSavePath' = r.path
          /\ raised' = r.raised
          /\ since' = [kind |-> "persist", path |-> path, from |-> autoSavePath,
                       had |-> {n \in Nodes : HasResult(node[n])}]
    /\ ops' = ops + 1
    /\ UNCHANGED <<call, dependencies, disk, dryRun, now, batchVars, pc, log, run>>

NextRebind ==
    \/ Rebind
    \/ RunStart
    \/ RunStep

SpecRebind == InitOverride /\ [][NextRebind]_vars

(* ------------------- Properties of the overridden flag ---------------- *)
\* Whether the document at path p marks node n as overridden.
MarkedIn(dsk, p, n) ==
    /\ dsk[p] \notin {NoFile, Truncated}
    /\ IntToStr(n) \in DOMAIN dsk[p]
    /\ dsk[p][IntToStr(n)].overriden

\* persist(path) has just bound the graph, which worked on another path.
Rebound ==
    /\ since.kind = "persist" /\ raised = "none"
    /\ since.from \notin {NoPath, since.path}

\* C28: when the graph that worked on one path is bound to another by
\* persist(path), the overridden flag of a node is set only if the document
\* at the new path marks it (no override has acted yet under the new path):
\* the flag is not carried over from the path worked on before.
C28_FlagNotCarriedOver ==
    Rebound =>
        \A n \in Nodes : node[n].wasOverridden => MarkedIn(disk, since.path, n)

(* -------------------------------- node.set ---------------------------- *)
\* The graphs of the tests, no node computed yet.
InitSet ==
    /\ \E g \in BatchGraphs :
          node = [n \in Nodes |-> NewNode(g[n].kind, g[n].refs, 1, FALSE, 0, 0, FALSE)]
    /\ dependencies = DependenciesOf(node)
    /\ autoSavePath = NoPath
    /\ disk = [p \in Paths |-> NoFile]
    /\ dryRun = FALSE
    /\ now = 1
    /\ pc = "idle"
    /\ batch = EmptyBatch
    /\ nodeIdx = 0
    /\ itemIdx = 0
    /\ errIdx = {}
    /\ stats = [completed |-> 0, failures |-> <<>>]
    /\ raised = "none"
    /\ log = <<>>
    /\ run = EmptyRun
    /\ since = Nothing
    /\ ops = 0
    /\ call = NoCall

\* node.set(arg, value): self.inputs[arg] = value, and nothing else. The
\* value is a node (in place of a literal, which the sum then lacks) or a
\* literal (in place of a node).
SetInput ==
    /\ CanCall
    /\ \E n \in Nodes, m \in Nodes, toNode \in BOOLEAN :
          /\ m # n
          /\ node[n].kind = "sum"
          /\ IF toNode
             THEN /\ m \notin node[n].refs
                  /\ Cardinality(node[n].refs) < 2
                  /\ node' = [node EXCEPT ![n].refs = @ \cup {m}, ![n].lit = 0]
             ELSE /\ m \in node[n].refs
                  /\ node' = [node EXCEPT ![n].refs = @ \ {m}]
    /\ since' = [kind |-> "change"]
    /\ ops' = ops + 1
    /\ UNCHANGED <<call, dependencies, autoSavePath, disk, dryRun, now, batchVars, pc,
                   raised, log, run>>

NextSet ==
    \/ SetInput
    \/ RunStart
    \/ RunStep

SpecSet == InitSet /\ [][NextSet]_vars

(* -------------------- Properties of the dependency map ---------------- *)
\* C29: after any add_node and node.set calls the dependency entry of every
\* node is the set of ids of its inputs that are nodes, so that run_upto([N])
\* computes before N every node whose result the inputs of N read.
C29_DependenciesMirrorInputs ==
    /\ \A n \in Nodes : dependencies[n] = node[n].refs
    /\ raised # "UpstreamNotComputed"

(* ----------- process_batch with manual_override_func nodes ------------ *)
\* The graphs of the tests that have inputs, any of the nodes added with a
\* manual_override_func.
InitBatchOverride ==
    /\ \E g \in {h \in BatchGraphs : h[NumNodes].refs # {}}, ov \in SUBSET Nodes :
          node = [n \in Nodes |->
                    NewNode(g[n].kind, g[n].refs, IF n = 1 THEN 0 ELSE 1, FALSE, 0, 0,
                            n \in ov)]
    /\ dependencies = DependenciesOf(node)
    /\ autoSavePath = NoPath
    /\ disk = [p \in Paths |-> NoFile]
    /\ dryRun = FALSE
    /\ now = 1
    /\ pc = "idle"
    /\ batch = EmptyBatch
    /\ nodeIdx = 0
    /\ itemIdx = 0
    /\ errIdx = {}
    /\ stats = [completed |-> 0, failures |-> <<>>]
    /\ raised = "none"
    /\ log = <<>>
    /\ run = EmptyRun
    /\ since = Nothing
    /\ ops = 0
    /\ call = NoCall

SpecBatchOverride == InitBatchOverride /\ [][NextBatch]_vars

(* ------------------ Properties of released processors ----------------- *)
\* The nodes listed in release_after_nodes whose inner loop has ended, after
\* which release_resources() has run.
ReleasedNodes ==
    {batch.nodesToRun[j] : j \in 1..(nodeIdx - 1)} \cap batch.releaseAfter

\* C30: once release_resources() has run after a node listed in
\* release_after_nodes, no processor of that node is made again during the
\* rest of the process_batch call, whichever nodes read its result.
C30_ReleasedStayReleased ==
    pc \in {"batch", "raised"} => \A k \in ReleasedNodes : ~node[k].lazy

====
